---- MODULE Spec2Model ----
(***************************************************************************)
(* A model of vy-lambda-tools: the Router and its route kinds              *)
(* (vy_lambda_tools/routing.py), the feature-flag evaluation and its       *)
(* providers (vy_lambda_tools/feature_flag/base.py, providers.py) and the  *)
(* handler adapters (vy_lambda_tools/handlers/sqs.py, dynamodb.py,         *)
(* api_gateway.py).                                                        *)
(*                                                                         *)
(* Python values are represented as follows.                               *)
(*   - None is the string None ("<None>"); an Optional[str] is a string.   *)
(*   - An ARN is a sequence of segments, an event-source tag a sequence of *)
(*     tokens ("aws:sqs" is <<"aws", "sqs">>), so that str.startswith and  *)
(*     == are different relations on them.                                 *)
(*   - A dict is a record; the keys that may be absent are listed in the   *)
(*     record's field "keys".                                              *)
(*   - A handler is an opaque callable, named by a number.                 *)
(***************************************************************************)
EXTENDS Integers, Sequences, FiniteSets, TLC

VARIABLES
    routes,      \* Router._routes
    result,      \* what the last call on the router did (its outcome)
    called,      \* the handler invocations made by the last dispatch
    mRoute,      \* matching: the route under test
    mEvent,      \* matching: the event under test
    mResult,     \* matching: the value matches_route returned
    mOther,      \* comparing: the route that mRoute is compared with
    sameResult,  \* comparing: the values has_same_route returned
    configured,  \* the dict the InMemoryProvider was constructed from
    flags,       \* InMemoryProvider.flags
    evalResult,  \* what the last FeatureFlag.evaluate or bool() call did
    evaluations, \* the number of evaluate and bool() calls made so far
    lookupResult, \* what the last InMemoryProvider.get_flag call did
    store,       \* the parameter store: parameter name -> parameter value
    ssmResult,   \* what the last AWSParameterStoreProvider.get_flag call did
    adapterResult \* what the last invocation of a handler adapter did

vars == <<routes, result, called, mRoute, mEvent, mResult, mOther, sameResult,
          configured, flags, evalResult, evaluations, lookupResult,
          store, ssmResult, adapterResult>>

routerVars == <<routes, result, called>>
matchVars == <<mRoute, mEvent, mResult, mOther, sameResult>>
flagVars == <<configured, flags, evalResult, evaluations, lookupResult>>
ssmVars == <<store, ssmResult>>
adapterVars == <<adapterResult>>

(***************************************************************************)
(* Bounds                                                                  *)
(***************************************************************************)
MaxRoutes == 3
MaxBatch == 2
MaxEvaluations == 2

(***************************************************************************)
(* Python values                                                           *)
(***************************************************************************)
None == "<None>"

\* bool(s) of an Optional[str]: None and "" are falsy
Truthy(s) == s # None /\ s # ""

\* an assignment x = value followed by Body(x): the right-hand side is
\* evaluated once
With(value, Body(_)) == CHOOSE r \in {Body(x) : x \in {value}} : TRUE

\* str.startswith: whole.startswith(prefix)
StartsWith(whole, prefix) ==
    /\ Len(prefix) <= Len(whole)
    /\ SubSeq(whole, 1, Len(prefix)) = prefix

SQS_EVENT_SOURCE == <<"aws", "sqs">>
DYNAMODB_EVENT_SOURCE == <<"aws", "dynamodb">>

(***************************************************************************)
(* Routes                                                                  *)
(***************************************************************************)
Route(kind, handler, arn, resource, method) ==
    [kind |-> kind, handler |-> handler, arn |-> arn,
     resource |-> resource, method |-> method]

SQSRoute(handler, queue_arn) == Route("SQSRoute", handler, queue_arn, None, None)

DynamoDBStreamsRoute(handler, table_arn) ==
    Route("DynamoDBStreamsRoute", handler, table_arn, None, None)

APIGatewayV1Route(handler, resource, method) ==
    Route("APIGatewayV1Route", handler, <<>>, resource, method)

\* the Route subclasses of tests/test_routing.py with constant predicates
NonMatchingRoute(handler) == Route("NonMatchingRoute", handler, <<>>, None, None)
AlwaysMatchingRoute(handler) == Route("AlwaysMatchingRoute", handler, <<>>, None, None)
AlwaysDuplicatedRoute(handler) == Route("AlwaysDuplicatedRoute", handler, <<>>, None, None)

event_source(self) ==
    IF self.kind = "SQSRoute" THEN SQS_EVENT_SOURCE ELSE DYNAMODB_EVENT_SOURCE

\* ---- has_same_route -------------------------------------------------------

\* a variant that takes any two routes with one ARN for the same route
SQSRoute_has_same_route_AnyKind(self, other) ==
    "arn" \in DOMAIN other /\ self.arn = other.arn

SQSRoute_has_same_route(self, other) ==
    other.kind = "SQSRoute" /\ self.arn = other.arn

DynamoDBStreamsRoute_has_same_route(self, other) ==
    other.kind = "DynamoDBStreamsRoute" /\ self.arn = other.arn

\* a variant that compares resource and method for equality only
APIRouteBase_has_same_route_MethodEq(self, other) ==
    /\ other.kind = "APIGatewayV1Route"
    /\ self.resource = other.resource
    /\ self.method = other.method

APIRouteBase_has_same_route(self, other) ==
    IF other.kind # "APIGatewayV1Route" THEN FALSE
    ELSE IF self.resource = other.resource
         THEN IF ~Truthy(self.method) /\ ~Truthy(other.method) THEN TRUE
              ELSE IF \/ (self.method = None /\ other.method # None)
                      \/ (other.method = None /\ self.method # None)
                   THEN TRUE
                   ELSE self.method = other.method
         ELSE FALSE

has_same_route(self, other) ==
    CASE self.kind = "SQSRoute" -> SQSRoute_has_same_route(self, other)
      [] self.kind = "DynamoDBStreamsRoute" -> DynamoDBStreamsRoute_has_same_route(self, other)
      [] self.kind = "APIGatewayV1Route" -> APIRouteBase_has_same_route(self, other)
      [] self.kind = "NonMatchingRoute" -> FALSE
      [] self.kind = "AlwaysMatchingRoute" -> TRUE
      [] self.kind = "AlwaysDuplicatedRoute" -> TRUE

\* Route.__eq__: every value of the model is a Route.  In add_route, route == r
\* evaluates route.__eq__(r), the new route's predicate on the held route: no
\* route class of the model subclasses another, so Python never tries the
\* reflected r.__eq__(route) first
Route_eq(self, other) == has_same_route(self, other)

\* ---- events ---------------------------------------------------------------

Record(source, arn) == [eventSource |-> source, eventSourceARN |-> arn]

BatchEvent(records) ==
    [keys |-> {"Records"}, Records |-> records,
     resource |-> None, httpMethod |-> None, version |-> None]

ApiEvent(resource, method, version) ==
    [keys |-> {"resource", "httpMethod"} \cup (IF version = None THEN {} ELSE {"version"}),
     Records |-> <<>>, resource |-> resource, httpMethod |-> method,
     version |-> version]

EmptyEvent ==
    [keys |-> {}, Records |-> <<>>,
     resource |-> None, httpMethod |-> None, version |-> None]

\* ---- matches_route --------------------------------------------------------

\* a variant that accepts every batch event, whatever its records' source
EventRouteBase_is_event_source_AnyBatch(self, event, context) ==
    "Records" \in event.keys

EventRouteBase_is_event_source(self, event, context) ==
    IF "Records" \notin event.keys THEN FALSE
    ELSE \E i \in 1..Len(event.Records) :
             event.Records[i].eventSource = event_source(self)

\* a variant that looks for the source tag and the ARN in one record
SQSRoute_matches_route_SameRecord(self, event, context) ==
    IF "Records" \notin event.keys THEN FALSE
    ELSE \E i \in 1..Len(event.Records) :
             /\ event.Records[i].eventSource = event_source(self)
             /\ event.Records[i].eventSourceARN = self.arn

\* a variant that compares the ARN by prefix, as DynamoDBStreamsRoute does
SQSRoute_matches_route_Prefix(self, event, context) ==
    IF ~EventRouteBase_is_event_source(self, event, context) THEN FALSE
    ELSE \E i \in 1..Len(event.Records) :
             StartsWith(event.Records[i].eventSourceARN, self.arn)

SQSRoute_matches_route(self, event, context) ==
    IF ~EventRouteBase_is_event_source(self, event, context) THEN FALSE
    ELSE \E i \in 1..Len(event.Records) :
             event.Records[i].eventSourceARN = self.arn

\* a variant that compares the ARN for equality, as SQSRoute does
DynamoDBStreamsRoute_matches_route_Exact(self, event, context) ==
    IF ~EventRouteBase_is_event_source(self, event, context) THEN FALSE
    ELSE \E i \in 1..Len(event.Records) :
             event.Records[i].eventSourceARN = self.arn

DynamoDBStreamsRoute_matches_route(self, event, context) ==
    IF ~EventRouteBase_is_event_source(self, event, context) THEN FALSE
    ELSE \E i \in 1..Len(event.Records) :
             StartsWith(event.Records[i].eventSourceARN, self.arn)

APIGatewayV1Route_is_event_source(self, event, context) ==
    IF "resource" \notin event.keys THEN FALSE
    ELSE IF "version" \in event.keys /\ event.version = "2.0" THEN FALSE
    ELSE TRUE

APIGatewayV1Route_create_request(self, event, context) ==
    [resource |-> event.resource, method |-> event.httpMethod]

\* a variant that takes only None for an unset resource or method
APIRouteBase_matches_route_IsNone(self, event, context) ==
    IF ~APIGatewayV1Route_is_event_source(self, event, context) THEN FALSE
    ELSE LET request == APIGatewayV1Route_create_request(self, event, context)
         IN  IF self.resource # None /\ self.resource # request.resource THEN FALSE
             ELSE IF self.method # None /\ self.method # request.method THEN FALSE
             ELSE TRUE

APIRouteBase_matches_route(self, event, context) ==
    IF ~APIGatewayV1Route_is_event_source(self, event, context) THEN FALSE
    ELSE LET request == APIGatewayV1Route_create_request(self, event, context)
         IN  IF Truthy(self.resource) /\ self.resource # request.resource THEN FALSE
             ELSE IF Truthy(self.method) /\ self.method # request.method THEN FALSE
             ELSE TRUE

matches_route(self, event, context) ==
    CASE self.kind = "SQSRoute" -> SQSRoute_matches_route(self, event, context)
      [] self.kind = "DynamoDBStreamsRoute" -> DynamoDBStreamsRoute_matches_route(self, event, context)
      [] self.kind = "APIGatewayV1Route" -> APIRouteBase_matches_route(self, event, context)
      [] self.kind = "NonMatchingRoute" -> FALSE
      [] self.kind = "AlwaysMatchingRoute" -> TRUE
      [] self.kind = "AlwaysDuplicatedRoute" -> FALSE

(***************************************************************************)
(* Router                                                                  *)
(***************************************************************************)
NoValue == [kind |-> "none", by |-> 0]

\* route.handler(event, context): the handler is opaque, oracle says whether
\* the handler that is called returns a value or raises
Invoke(route, event, context, oracle) ==
    [handler |-> route.handler, event |-> event, context |-> context,
     outcome |-> [kind |-> oracle, by |-> route.handler]]

\* a variant of the loop that goes on to the next route when a handler raises
RECURSIVE Router_scan_Fallthrough(_, _, _, _, _)
Router_scan_Fallthrough(rs, i, event, context, oracle) ==
    IF i > Len(rs)
    THEN [status |-> "RoutingError", value |-> NoValue, called |-> <<>>]
    ELSE IF matches_route(rs[i], event, context)
         THEN LET call == Invoke(rs[i], event, context, oracle)
                  rest == Router_scan_Fallthrough(rs, i + 1, event, context, oracle)
              IN  IF call.outcome.kind = "return" \/ rest.called = <<>>
                  THEN [status |-> IF call.outcome.kind = "return" THEN "returned" ELSE "raised",
                        value |-> call.outcome, called |-> <<call>>]
                  ELSE [status |-> rest.status, value |-> rest.value,
                        called |-> <<call>> \o rest.called]
         ELSE Router_scan_Fallthrough(rs, i + 1, event, context, oracle)

\* a variant of the loop that ends with NoRoutesError
RECURSIVE Router_scan_EndNoRoutes(_, _, _, _, _)
Router_scan_EndNoRoutes(rs, i, event, context, oracle) ==
    IF i > Len(rs)
    THEN [status |-> "NoRoutesError", value |-> NoValue, called |-> <<>>]
    ELSE IF matches_route(rs[i], event, context)
         THEN LET call == Invoke(rs[i], event, context, oracle)
              IN  [status |-> IF call.outcome.kind = "return" THEN "returned" ELSE "raised",
                   value |-> call.outcome,
                   called |-> <<call>>]
         ELSE Router_scan_EndNoRoutes(rs, i + 1, event, context, oracle)

\* the for loop of Router.__call__, from route i on
RECURSIVE Router_scan(_, _, _, _, _)
Router_scan(rs, i, event, context, oracle) ==
    IF i > Len(rs)
    THEN [status |-> "RoutingError", value |-> NoValue, called |-> <<>>]
    ELSE IF matches_route(rs[i], event, context)
         THEN LET call == Invoke(rs[i], event, context, oracle)
              IN  [status |-> IF call.outcome.kind = "return" THEN "returned" ELSE "raised",
                   value |-> call.outcome,
                   called |-> <<call>>]
         ELSE Router_scan(rs, i + 1, event, context, oracle)

\* a variant without the check for an empty router
Router_call_NoEmptyCheck(rs, event, context, oracle) ==
    Router_scan(rs, 1, event, context, oracle)

Router_call(rs, event, context, oracle) ==
    IF Len(rs) = 0
    THEN [status |-> "NoRoutesError", value |-> NoValue, called |-> <<>>]
    ELSE Router_scan(rs, 1, event, context, oracle)

\* a variant that compares the new route with the last route only
Router_add_route_LastOnly(rs, route) ==
    IF Len(rs) > 0 /\ Route_eq(route, rs[Len(rs)])
    THEN [status |-> "DuplicateRoutesError", routes |-> rs]
    ELSE [status |-> "ok", routes |-> Append(rs, route)]

\* a variant that appends before it checks
Router_add_route_AppendThenRaise(rs, route) ==
    IF \E i \in 1..Len(rs) : Route_eq(route, rs[i])
    THEN [status |-> "DuplicateRoutesError", routes |-> Append(rs, route)]
    ELSE [status |-> "ok", routes |-> Append(rs, route)]

\* a variant that puts an accepted route in front of the held ones
Router_add_route_Prepend(rs, route) ==
    IF \E i \in 1..Len(rs) : Route_eq(route, rs[i])
    THEN [status |-> "DuplicateRoutesError", routes |-> rs]
    ELSE [status |-> "ok", routes |-> <<route>> \o rs]

Router_add_route(rs, route) ==
    IF \E i \in 1..Len(rs) : Route_eq(route, rs[i])
    THEN [status |-> "DuplicateRoutesError", routes |-> rs]
    ELSE [status |-> "ok", routes |-> Append(rs, route)]

\* ---- the inputs of the router's operations ---------------------------------

RouteArns == {<<"t1">>, <<"t1", "stream">>}
EventArns == {<<"t1">>, <<"t1", "stream">>, <<"t2">>}
Resources == {"/a", "/b"}
Methods == {"GET", "POST"}
Contexts == {"ctx1", "ctx2"}
Outcomes == {"return", "raise"}

\* the routes that may be registered, each with its own handler h
RouterRoutes(h) ==
    {SQSRoute(h, a) : a \in RouteArns}
    \cup {DynamoDBStreamsRoute(h, a) : a \in RouteArns}
    \cup {APIGatewayV1Route(h, None, None), APIGatewayV1Route(h, "/a", None),
          APIGatewayV1Route(h, "/a", "GET")}
    \cup {NonMatchingRoute(h), AlwaysMatchingRoute(h), AlwaysDuplicatedRoute(h)}

\* the HTTP routes that may be registered
ApiRoutes(h) ==
    {APIGatewayV1Route(h, r, m) : r \in Resources, m \in Methods \cup {None, ""}}
    \cup {APIGatewayV1Route(h, None, None)}

DispatchEvents ==
    {EmptyEvent}
    \cup {BatchEvent(<<Record(SQS_EVENT_SOURCE, a)>>) : a \in RouteArns}
    \cup {BatchEvent(<<Record(DYNAMODB_EVENT_SOURCE, a)>>) : a \in {<<"t1", "stream">>, <<"t2">>}}
    \cup {ApiEvent("/a", "GET", None), ApiEvent("/b", "POST", None)}

NoRoute == Route("none", 0, <<>>, None, None)

RouterInit ==
    /\ routes = <<>>
    /\ result = [op |-> "none", status |-> "none", route |-> NoRoute,
                 event |-> EmptyEvent, context |-> None, value |-> NoValue]
    /\ called = <<>>

\* router.add_route(route)
Register(route) ==
    LET out == Router_add_route(routes, route)
    IN  /\ Len(out.routes) <= MaxRoutes
        /\ routes' = out.routes
        /\ result' = [op |-> "add_route", status |-> out.status, route |-> route,
                      event |-> EmptyEvent, context |-> None, value |-> NoValue]
        /\ called' = <<>>
        /\ UNCHANGED <<matchVars, flagVars, ssmVars, adapterVars>>

AddRoute == \E route \in RouterRoutes(Len(routes) + 1) : Register(route)

AddApiRoute == \E route \in ApiRoutes(Len(routes) + 1) : Register(route)

\* router(event, context)
Dispatch ==
    \E event \in DispatchEvents, context \in Contexts, oracle \in Outcomes :
        LET out == Router_call(routes, event, context, oracle)
        IN  /\ routes' = routes
            /\ result' = [op |-> "dispatch", status |-> out.status, route |-> NoRoute,
                          event |-> event, context |-> context, value |-> out.value]
            /\ called' = out.called
            /\ UNCHANGED <<matchVars, flagVars, ssmVars, adapterVars>>

(***************************************************************************)
(* Matching taken alone: a route and an event, and matches_route applied   *)
(***************************************************************************)
FOREIGN_EVENT_SOURCE == <<"aws", "sqs", "fifo">>
EventSources == {SQS_EVENT_SOURCE, DYNAMODB_EVENT_SOURCE, FOREIGN_EVENT_SOURCE}

MatchRoutes ==
    {SQSRoute(1, a) : a \in EventArns}
    \cup {DynamoDBStreamsRoute(1, a) : a \in EventArns}
    \cup {APIGatewayV1Route(1, r, m) : r \in Resources \cup {None, ""}, m \in Methods \cup {None, ""}}

Records == {Record(s, a) : s \in EventSources, a \in EventArns}

RECURSIVE Batches(_)
Batches(n) ==
    IF n = 0 THEN {<<>>}
    ELSE Batches(n - 1) \cup {Append(b, r) : b \in {x \in Batches(n - 1) : Len(x) = n - 1}, r \in Records}

MatchEvents ==
    {EmptyEvent}
    \cup {BatchEvent(b) : b \in Batches(MaxBatch)}
    \cup {ApiEvent(r, m, v) : r \in Resources \cup {None}, m \in Methods \cup {None}, v \in {None, "1.0", "2.0"}}

NoSameResult == [done |-> FALSE, value |-> FALSE, reverse |-> FALSE]

MatchInit ==
    /\ mRoute \in MatchRoutes
    /\ mEvent \in MatchEvents
    /\ mResult = [done |-> FALSE, value |-> FALSE]
    /\ mOther = NoRoute
    /\ sameResult = NoSameResult

MatchIdle ==
    /\ mRoute = NoRoute
    /\ mEvent = EmptyEvent
    /\ mResult = [done |-> FALSE, value |-> FALSE]
    /\ mOther = NoRoute
    /\ sameResult = NoSameResult

\* route.matches_route(event, context)
Match ==
    /\ ~mResult.done
    /\ \E context \in Contexts :
           mResult' = [done |-> TRUE, value |-> matches_route(mRoute, mEvent, context)]
    /\ UNCHANGED <<mRoute, mEvent, mOther, sameResult, routerVars, flagVars, ssmVars,
                   adapterVars>>

\* ---- pairs of routes for has_same_route ------------------------------------
\* routes of the built-in kinds with two different handlers
SameRoutes ==
    UNION {{SQSRoute(h, a) : a \in EventArns}
           \cup {DynamoDBStreamsRoute(h, a) : a \in EventArns}
           \cup {APIGatewayV1Route(h, r, m) :
                     r \in Resources \cup {None, ""}, m \in Methods \cup {None, ""}} :
           h \in {1, 2}}

SameInit ==
    /\ mRoute \in SameRoutes
    /\ mOther \in SameRoutes
    /\ mEvent = EmptyEvent
    /\ mResult = [done |-> FALSE, value |-> FALSE]
    /\ sameResult = NoSameResult

\* route.has_same_route(other), and other.has_same_route(route)
Compare ==
    /\ ~sameResult.done
    /\ sameResult' = [done |-> TRUE, value |-> has_same_route(mRoute, mOther),
                      reverse |-> has_same_route(mOther, mRoute)]
    /\ UNCHANGED <<mRoute, mEvent, mResult, mOther, routerVars, flagVars, ssmVars,
                   adapterVars>>

(***************************************************************************)
(* The parameter-store flag provider                                       *)
(***************************************************************************)
\* A parameter name "/applications/app/flags/key/enabled" is the path of its
\* directory, a sequence of segments, and its last segment, a sequence of
\* tokens, so that str.endswith is not equality.
Name(dir, leaf) == [dir |-> dir, leaf |-> leaf]

\* str.endswith
EndsWith(whole, suffix) ==
    /\ Len(suffix) <= Len(whole)
    /\ SubSeq(whole, Len(whole) - Len(suffix) + 1, Len(whole)) = suffix

\* the values json.loads produces
JNull == [type |-> "null", b |-> FALSE, n |-> 0, s |-> "", items |-> <<>>]
JBool(b) == [type |-> "bool", b |-> b, n |-> 0, s |-> "", items |-> <<>>]
JNumber(n) == [type |-> "number", b |-> FALSE, n |-> n, s |-> "", items |-> <<>>]
JString(s) == [type |-> "string", b |-> FALSE, n |-> 0, s |-> s, items |-> <<>>]
JList(items) == [type |-> "list", b |-> FALSE, n |-> 0, s |-> "", items |-> items]

\* json.loads on the parameter values of the model; ok is false where it
\* raises json.JSONDecodeError
json_loads(text) ==
    CASE text = "true" -> [ok |-> TRUE, value |-> JBool(TRUE)]
      [] text = "false" -> [ok |-> TRUE, value |-> JBool(FALSE)]
      [] text = "null" -> [ok |-> TRUE, value |-> JNull]
      [] text = "0" -> [ok |-> TRUE, value |-> JNumber(0)]
      [] text = "1" -> [ok |-> TRUE, value |-> JNumber(1)]
      [] text = "2" -> [ok |-> TRUE, value |-> JNumber(2)]
      [] text = "\"on\"" -> [ok |-> TRUE, value |-> JString("on")]
      [] text = "[]" -> [ok |-> TRUE, value |-> JList(<<>>)]
      [] text = "[\"A\"]" -> [ok |-> TRUE, value |-> JList(<<"A">>)]
      [] OTHER -> [ok |-> FALSE, value |-> JNull]

\* Python's x == True and x == False: bool is a subclass of int, so 1 == True
\* and 0 == False
PyEqualsBool(x, b) ==
    \/ x.type = "bool" /\ x.b = b
    \/ x.type = "number" /\ x.n = (IF b THEN 1 ELSE 0)

\* x in (True, False)
InTrueFalse(x) == PyEqualsBool(x, TRUE) \/ PyEqualsBool(x, FALSE)

AWSParameterStoreProvider(application_name) ==
    [application_name |-> application_name, prefix |-> "applications",
     flag_prefix |-> "flags"]

\* a variant whose path leaves the application name out
AWSParameterStoreProvider_base_path_Shared(self) ==
    <<self.prefix, "app_a", self.flag_prefix>>

\* AWSParameterStoreProvider._base_path
AWSParameterStoreProvider_base_path(self) ==
    <<self.prefix, self.application_name, self.flag_prefix>>

\* ssm_client.get_parameters_by_path(Path=path, Recursive=False): the names
\* of the parameters directly under path
get_parameters_by_path(st, path) == {name \in DOMAIN st : name.dir = path}

\* next(value of the parameters whose name ends with suffix): the model's
\* leaves have at most one name per suffix under a path, so the order of the
\* response does not matter
ParametersEndingWith(st, names, suffix) ==
    {name \in names : EndsWith(name.leaf, suffix)}

SsmFlagValue(enabled, context) == [enabled |-> enabled, context |-> context]

SsmRaise(exception) ==
    [status |-> exception, value |-> SsmFlagValue(JNull, JNull)]

\* a variant that takes an enabled value that is not JSON as false
LoadEnabled_FalseOnDecodeError(text) ==
    IF json_loads(text).ok THEN json_loads(text).value ELSE JBool(FALSE)

\* get_flag's first try/except around json.loads: None on JSONDecodeError
LoadEnabled(text) ==
    IF json_loads(text).ok THEN json_loads(text).value ELSE JNull

\* json.loads(context_parameter) if context_parameter else None, and None
\* on JSONDecodeError
LoadContext(context_parameter) ==
    IF ~Truthy(context_parameter) THEN JNull
    ELSE IF json_loads(context_parameter).ok THEN json_loads(context_parameter).value
    ELSE JNull

\* a variant that lets the exception of the SSM client through
AWSParameterStoreProvider_get_flag_Propagate(self, st, key, clientFails) ==
    LET path == Append(AWSParameterStoreProvider_base_path(self), key)
        Parameters == get_parameters_by_path(st, path)
        enabledNames == ParametersEndingWith(st, Parameters, <<"enabled">>)
        enabled == LoadEnabled(st[CHOOSE name \in enabledNames : TRUE])
        contextNames == ParametersEndingWith(st, Parameters, <<"context">>)
        context_parameter ==
            IF contextNames = {} THEN None ELSE st[CHOOSE name \in contextNames : TRUE]
        context == LoadContext(context_parameter)
    IN  IF clientFails THEN SsmRaise("ClientError")
        ELSE IF Parameters = {} THEN SsmRaise("FlagNotFound")
        ELSE IF enabledNames = {} THEN SsmRaise("FlagNotFound")
        ELSE IF enabled.type = "null" THEN SsmRaise("FlagNotFound")
        ELSE IF ~InTrueFalse(enabled) THEN SsmRaise("ValueError")
        ELSE IF context.type # "null" /\ context.type # "list" THEN SsmRaise("ValueError")
        ELSE [status |-> "returned", value |-> SsmFlagValue(enabled, context)]

\* AWSParameterStoreProvider.get_flag; clientFails says that the call of the
\* SSM client raised
AWSParameterStoreProvider_get_flag(self, st, key, clientFails) ==
    LET path == Append(AWSParameterStoreProvider_base_path(self), key)
        Parameters == get_parameters_by_path(st, path)
        enabledNames == ParametersEndingWith(st, Parameters, <<"enabled">>)
        enabled == LoadEnabled(st[CHOOSE name \in enabledNames : TRUE])
        contextNames == ParametersEndingWith(st, Parameters, <<"context">>)
        context_parameter ==
            IF contextNames = {} THEN None ELSE st[CHOOSE name \in contextNames : TRUE]
        context == LoadContext(context_parameter)
    IN  IF clientFails THEN SsmRaise("FlagNotFound")
        ELSE IF Parameters = {} THEN SsmRaise("FlagNotFound")
        ELSE IF enabledNames = {} THEN SsmRaise("FlagNotFound")
        ELSE IF enabled.type = "null" THEN SsmRaise("FlagNotFound")
        ELSE IF ~InTrueFalse(enabled) THEN SsmRaise("ValueError")
        ELSE IF context.type # "null" /\ context.type # "list" THEN SsmRaise("ValueError")
        ELSE [status |-> "returned", value |-> SsmFlagValue(enabled, context)]

\* ---- the inputs of the parameter-store provider ----------------------------

Applications == {"app_a", "app_b"}
SsmKeys == {"test_flag", "other_flag"}
Absent == "<absent>"
NOT_JSON == "not json"

EnabledTexts == {"true", "false", "null", "0", "1", "2", "\"on\"", "[]", NOT_JSON}
ContextTexts == {"null", "[\"A\"]", "\"on\"", NOT_JSON}

FlagDir(application_name) == <<"applications", application_name, "flags", "test_flag">>
EnabledName(application_name) == Name(FlagDir(application_name), <<"enabled">>)
ContextName(application_name) == Name(FlagDir(application_name), <<"context">>)
EnabledAtName(application_name) == Name(FlagDir(application_name), <<"enabled", "_at">>)

\* the store that holds, under test_flag of each application, the chosen
\* parameters: app_a in every shape, app_b in fewer
StoreWith(chosen) ==
    [name \in {n \in DOMAIN chosen : chosen[n] # Absent} |-> chosen[name]]

Stores ==
    {StoreWith(EnabledName("app_a") :> ea @@ ContextName("app_a") :> ca
               @@ EnabledAtName("app_a") :> ta
               @@ EnabledName("app_b") :> eb @@ ContextName("app_b") :> cb) :
        ea \in EnabledTexts \cup {Absent}, ca \in ContextTexts \cup {Absent},
        ta \in {"1", Absent},
        eb \in {"true", "false", Absent}, cb \in {"[\"A\"]", Absent}}

NoSsmResult ==
    [done |-> FALSE, application_name |-> None, key |-> None, clientFails |-> FALSE,
     status |-> "none", value |-> SsmFlagValue(JNull, JNull)]

SsmInit ==
    /\ store \in Stores
    /\ ssmResult = NoSsmResult

SsmIdle ==
    /\ store = <<>>
    /\ ssmResult = NoSsmResult

\* provider.get_flag(key) on a provider of one application over the store
GetFlag ==
    \E application_name \in Applications, key \in SsmKeys, clientFails \in BOOLEAN :
        LET out == AWSParameterStoreProvider_get_flag(
                       AWSParameterStoreProvider(application_name), store, key,
                       clientFails)
        IN  /\ ssmResult' = [done |-> TRUE, application_name |-> application_name,
                             key |-> key, clientFails |-> clientFails,
                             status |-> out.status, value |-> out.value]
            /\ UNCHANGED <<store, routerVars, matchVars, flagVars, adapterVars>>

(***************************************************************************)
(* Feature flags                                                           *)
(***************************************************************************)
\* Optional[list[str]]: None, or a list
NoContext == [none |-> TRUE, items |-> <<>>]
ContextList(items) == [none |-> FALSE, items |-> items]

FlagValue(enabled, context) == [enabled |-> enabled, context |-> context]

\* InMemoryProvider.__init__: config maps each configured key to a dict with
\* "enabled" and, when "context" is in its keys, "context"
InMemoryProvider_init(config) ==
    [key \in DOMAIN config |->
        FlagValue(config[key].enabled,
                  IF "context" \in config[key].keys THEN config[key].context
                  ELSE NoContext)]

\* a variant that removes the entry it returns, as dict.pop does
InMemoryProvider_get_flag_Pop(provider, key) ==
    IF key \in DOMAIN provider
    THEN [status |-> "ok", value |-> provider[key], key |-> key,
          flags |-> [k \in DOMAIN provider \ {key} |-> provider[k]]]
    ELSE [status |-> "FlagNotFound", value |-> FlagValue(FALSE, NoContext), key |-> key,
          flags |-> provider]

\* InMemoryProvider.get_flag: self.flags[key], a KeyError becomes
\* FlagNotFound(key); flags is the dict after the call
InMemoryProvider_get_flag(provider, key) ==
    IF key \in DOMAIN provider
    THEN [status |-> "ok", value |-> provider[key], key |-> key, flags |-> provider]
    ELSE [status |-> "FlagNotFound", value |-> FlagValue(FALSE, NoContext), key |-> key,
          flags |-> provider]

\* the FlagValue that AWSParameterStoreProvider.get_flag builds from the
\* loaded JSON values: a number that passed the check stays a number
AsFlagValue(value) ==
    FlagValue(IF value.enabled.type = "bool" THEN value.enabled.b ELSE value.enabled.n,
              IF value.context.type = "list" THEN ContextList(value.context.items)
              ELSE NoContext)

\* a provider object bound to its SSM client; the client reads the store st
\* and raises on every call when fails is true
BoundProvider(application_name, st, fails) ==
    [application_name |-> application_name, prefix |-> "applications",
     flag_prefix |-> "flags", ssm_client |-> [store |-> st, fails |-> fails]]

\* self.provider.get_flag(key) on either provider class; an outcome is the
\* status ("ok", or the exception raised), the value and the key asked for
FlagProvider_get_flag(provider, key) ==
    IF "ssm_client" \in DOMAIN provider
    THEN With(AWSParameterStoreProvider_get_flag(
                  provider, provider.ssm_client.store, key, provider.ssm_client.fails),
              LAMBDA out :
                  [status |-> IF out.status = "returned" THEN "ok" ELSE out.status,
                   value |-> AsFlagValue(out.value), key |-> key])
    ELSE With(InMemoryProvider_get_flag(provider, key),
              LAMBDA out : [status |-> out.status, value |-> out.value, key |-> key])

\* a variant whose synthesized value carries an empty context list
FeatureFlag_value_EmptyContext(self, provider) ==
    With(FlagProvider_get_flag(provider, self.key), LAMBDA got :
        IF got.status = "FlagNotFound"
        THEN [status |-> "ok", value |-> FlagValue(self.default, ContextList(<<>>)),
              lookups |-> <<got>>]
        ELSE [status |-> got.status, value |-> got.value, lookups |-> <<got>>])

\* a variant that catches every exception of the provider
FeatureFlag_value_CatchAll(self, provider) ==
    With(FlagProvider_get_flag(provider, self.key), LAMBDA got :
        IF got.status # "ok"
        THEN [status |-> "ok", value |-> FlagValue(self.default, NoContext),
              lookups |-> <<got>>]
        ELSE [status |-> got.status, value |-> got.value, lookups |-> <<got>>])

\* FeatureFlag._value: one call of the provider, only FlagNotFound is caught;
\* lookups are the outcomes of the provider calls made
FeatureFlag_value(self, provider) ==
    With(FlagProvider_get_flag(provider, self.key), LAMBDA got :
        IF got.status = "FlagNotFound"
        THEN [status |-> "ok", value |-> FlagValue(self.default, NoContext),
              lookups |-> <<got>>]
        ELSE [status |-> got.status, value |-> got.value, lookups |-> <<got>>])

\* list.__contains__
Contains(items, x) == \E i \in 1..Len(items) : items[i] = x

\* a variant of the toggle that consults the stored context list
ToggleFlag_evaluate_ContextAware(self, provider, for_context) ==
    With(FeatureFlag_value(self, provider), LAMBDA got :
        LET value == got.value
        IN  [status |-> IF got.status = "ok" THEN "returned" ELSE got.status,
             lookups |-> got.lookups,
             value |-> IF value.context.none THEN value.enabled
                       ELSE IF for_context = None THEN FALSE
                       ELSE Contains(value.context.items, for_context)])

\* ToggleFlag.evaluate: for_context is accepted and not read
ToggleFlag_evaluate(self, provider, for_context) ==
    With(FeatureFlag_value(self, provider), LAMBDA got :
        [status |-> IF got.status = "ok" THEN "returned" ELSE got.status,
         lookups |-> got.lookups,
         value |-> got.value.enabled])

\* a variant that also requires enabled for a listed context
ContextAwareFlag_evaluate_EnabledAnd(self, provider, for_context) ==
    With(FeatureFlag_value(self, provider), LAMBDA got :
        LET value == got.value
        IN  [status |-> IF got.status = "ok" THEN "returned" ELSE got.status,
             lookups |-> got.lookups,
             value |-> IF value.context.none THEN value.enabled
                       ELSE IF for_context = None THEN FALSE
                       ELSE value.enabled /\ Contains(value.context.items, for_context)])

ContextAwareFlag_evaluate(self, provider, for_context) ==
    With(FeatureFlag_value(self, provider), LAMBDA got :
        LET value == got.value
        IN  [status |-> IF got.status = "ok" THEN "returned" ELSE got.status,
             lookups |-> got.lookups,
             value |-> IF value.context.none THEN value.enabled
                       ELSE IF for_context = None THEN FALSE
                       ELSE Contains(value.context.items, for_context)])

\* a variant that keeps the result of the last evaluation of a flag
evaluate_Memo(self, provider, for_context) ==
    IF evalResult.done /\ evalResult.flag = self /\ evalResult.for_context = for_context
    THEN [status |-> evalResult.status, lookups |-> <<>>, value |-> evalResult.value]
    ELSE IF self.kind = "ToggleFlag" THEN ToggleFlag_evaluate(self, provider, for_context)
    ELSE ContextAwareFlag_evaluate(self, provider, for_context)

evaluate(self, provider, for_context) ==
    IF self.kind = "ToggleFlag" THEN ToggleFlag_evaluate(self, provider, for_context)
    ELSE ContextAwareFlag_evaluate(self, provider, for_context)

\* a variant of the conversion that reads the stored enabled value directly
FeatureFlag_bool_EnabledOnly(self, provider) ==
    With(FeatureFlag_value(self, provider), LAMBDA got :
        [status |-> IF got.status = "ok" THEN "returned" ELSE got.status,
         lookups |-> got.lookups,
         value |-> got.value.enabled])

\* FeatureFlag.__bool__: self.evaluate(), for_context left at its default None
FeatureFlag_bool(self, provider) == evaluate(self, provider, None)

\* ---- the inputs of the flag operations -------------------------------------

FlagKeys == {"simple_enabled", "context_enabled"}
StoredContexts == {NoContext, ContextList(<<>>), ContextList(<<"A">>), ContextList(<<"A", "B">>)}
SuppliedContexts == {None, "A", "B", "C"}

ConfigEntries ==
    {[enabled |-> e, keys |-> {}, context |-> NoContext] : e \in BOOLEAN}
    \cup {[enabled |-> e, keys |-> {"context"}, context |-> c] : e \in BOOLEAN, c \in StoredContexts}

Configs == UNION {[ks -> ConfigEntries] : ks \in SUBSET FlagKeys}

\* the flag classes: a kind, the class attributes key and default
Flags ==
    [kind : {"ToggleFlag", "ContextAwareFlag"}, key : FlagKeys, default : BOOLEAN]

NoFlag == [kind |-> "none", key |-> "none", default |-> FALSE]

NoEvalResult ==
    [done |-> FALSE, op |-> "none", flag |-> NoFlag, for_context |-> None,
     clientFails |-> FALSE, status |-> "none", value |-> FALSE, lookups |-> <<>>]

NoLookupResult ==
    [done |-> FALSE, key |-> None, status |-> "none",
     value |-> FlagValue(FALSE, NoContext), raised_key |-> None]

FlagInit ==
    /\ configured \in Configs
    /\ flags = InMemoryProvider_init(configured)
    /\ evalResult = NoEvalResult
    /\ evaluations = 0
    /\ lookupResult = NoLookupResult

FlagIdle ==
    /\ configured = <<>>
    /\ flags = <<>>
    /\ evalResult = NoEvalResult
    /\ evaluations = 0
    /\ lookupResult = NoLookupResult

\* flag.evaluate(for_context=...) on a flag instance bound to the provider
Evaluate ==
    /\ evaluations < MaxEvaluations
    /\ \E self \in Flags, for_context \in SuppliedContexts :
        \E out \in {evaluate(self, flags, for_context)} :
            /\ evalResult' = [done |-> TRUE, op |-> "evaluate", flag |-> self,
                              for_context |-> for_context, clientFails |-> FALSE,
                              status |-> out.status, value |-> out.value,
                              lookups |-> out.lookups]
            /\ evaluations' = evaluations + 1
            /\ UNCHANGED <<configured, flags, lookupResult, routerVars, matchVars, ssmVars,
                           adapterVars>>

\* bool(flag) on a flag instance bound to the provider
Bool ==
    /\ evaluations < MaxEvaluations
    /\ \E self \in Flags :
        \E out \in {FeatureFlag_bool(self, flags)} :
            /\ evalResult' = [done |-> TRUE, op |-> "bool", flag |-> self,
                              for_context |-> None, clientFails |-> FALSE,
                              status |-> out.status, value |-> out.value,
                              lookups |-> out.lookups]
            /\ evaluations' = evaluations + 1
            /\ UNCHANGED <<configured, flags, lookupResult, routerVars, matchVars, ssmVars,
                           adapterVars>>

\* provider.get_flag(key) on the InMemoryProvider; a key outside the
\* configuration keys is asked for too
LookupKeys == FlagKeys \cup {"missing"}

Lookup ==
    \E key \in LookupKeys :
        LET out == InMemoryProvider_get_flag(flags, key)
        IN  /\ lookupResult' = [done |-> TRUE, key |-> key, status |-> out.status,
                                value |-> out.value,
                                raised_key |-> IF out.status = "FlagNotFound"
                                               THEN out.key ELSE None]
            /\ flags' = out.flags
            /\ UNCHANGED <<configured, evalResult, evaluations, routerVars, matchVars,
                           ssmVars, adapterVars>>

\* ---- flags over the parameter store -----------------------------------------
\* the flags are bound to the provider of app_a; the store holds the
\* parameters of test_flag of app_a
REMOTE_APPLICATION == "app_a"

RemoteStores ==
    {StoreWith(EnabledName(REMOTE_APPLICATION) :> e
               @@ ContextName(REMOTE_APPLICATION) :> c) :
        e \in EnabledTexts \cup {Absent}, c \in ContextTexts \cup {Absent}}

RemoteFlags ==
    [kind : {"ToggleFlag", "ContextAwareFlag"}, key : SsmKeys, default : BOOLEAN]

RemoteContexts == {None, "A", "B"}

RemoteInit ==
    /\ store \in RemoteStores
    /\ ssmResult = NoSsmResult

\* flag.evaluate(for_context=...) on a flag instance bound to the
\* AWSParameterStoreProvider; clientFails says that the SSM client raises
EvaluateRemote ==
    /\ evaluations < MaxEvaluations
    /\ \E self \in RemoteFlags, for_context \in RemoteContexts, clientFails \in BOOLEAN :
        \E out \in {evaluate(self, BoundProvider(REMOTE_APPLICATION, store, clientFails),
                               for_context)} :
            /\ evalResult' = [done |-> TRUE, op |-> "evaluate", flag |-> self,
                              for_context |-> for_context, clientFails |-> clientFails,
                              status |-> out.status, value |-> out.value,
                              lookups |-> out.lookups]
            /\ evaluations' = evaluations + 1
            /\ UNCHANGED <<configured, flags, lookupResult, store, ssmResult, routerVars,
                           matchVars, adapterVars>>

\* ssm_client.put_parameter(Name=..., Value=..., Overwrite=True) by whoever
\* administers the flags, between two evaluations
PutParameter ==
    \E name \in {EnabledName(REMOTE_APPLICATION), ContextName(REMOTE_APPLICATION)} :
        \E text \in (IF name.leaf = <<"enabled">> THEN EnabledTexts ELSE ContextTexts) :
            /\ ~(name \in DOMAIN store /\ store[name] = text)
            /\ store' = [n \in DOMAIN store \cup {name} |->
                            IF n = name THEN text ELSE store[n]]
            /\ UNCHANGED <<ssmResult, routerVars, matchVars, flagVars, adapterVars>>

(***************************************************************************)
(* The handler adapters (vy_lambda_tools/handlers)                         *)
(***************************************************************************)
\* Python's None as a returned value, and the batch-failure report
PyNone == [kind |-> "None", batchItemFailures |-> <<>>]
Report(items) ==
    [kind |-> "dict",
     batchItemFailures |-> [i \in 1..Len(items) |-> [itemIdentifier |-> items[i]]]]

\* all sequences over S of length at most n
RECURSIVE SeqsUpTo(_, _)
SeqsUpTo(S, n) ==
    IF n = 0 THEN {<<>>}
    ELSE LET shorter == SeqsUpTo(S, n - 1)
         IN  shorter \cup {Append(b, x) : b \in {c \in shorter : Len(c) = n - 1}, x \in S}

\* ---- the queue adapter ------------------------------------------------------
\* EnvelopeDecoder.decode on the parsed record body: TRUE when it returns,
\* FALSE when it raises (KeyError on a missing key, JSONDecodeError on the
\* SNS message)
EnvelopeDecoder_decode(envelope, record_event) ==
    CASE envelope = "NoEnvelope" -> TRUE
      [] envelope = "SNSEnvelope" ->
            "Message" \in record_event.keys /\ record_event.message_is_json
      [] envelope = "EventBridgeEnvelope" -> "detail" \in record_event.keys

\* the body of the try statement for one record: json.loads of the body, the
\* envelope's decode, then the handler; called says whether the handler ran,
\* raised whether the except clause ran
SQSHandler_try(envelope, record) ==
    LET decoded == record.body.is_json /\ EnvelopeDecoder_decode(envelope, record.body)
    IN  [called |-> decoded, raised |-> ~decoded \/ record.handler_raises]

\* a variant of the loop that leaves the batch at the first failure
RECURSIVE SQSHandler_loop_StopAtFailure(_, _)
SQSHandler_loop_StopAtFailure(envelope, records) ==
    IF records = <<>> THEN [failed_items |-> <<>>, attempted |-> <<>>, calls |-> <<>>]
    ELSE LET record == Head(records)
             try == SQSHandler_try(envelope, record)
             rest == IF try.raised
                     THEN [failed_items |-> <<>>, attempted |-> <<>>, calls |-> <<>>]
                     ELSE SQSHandler_loop_StopAtFailure(envelope, Tail(records))
         IN  [failed_items |-> (IF try.raised THEN <<record.messageId>> ELSE <<>>)
                                   \o rest.failed_items,
              attempted |-> <<record.messageId>> \o rest.attempted,
              calls |-> (IF try.called THEN <<record.messageId>> ELSE <<>>) \o rest.calls]

\* the for loop of SQSHandler.__call__: failed_items, the records whose try
\* statement ran (attempted) and the records handed to the handler (calls)
RECURSIVE SQSHandler_loop(_, _)
SQSHandler_loop(envelope, records) ==
    IF records = <<>> THEN [failed_items |-> <<>>, attempted |-> <<>>, calls |-> <<>>]
    ELSE LET record == Head(records)
             try == SQSHandler_try(envelope, record)
             rest == SQSHandler_loop(envelope, Tail(records))
         IN  [failed_items |-> (IF try.raised THEN <<record.messageId>> ELSE <<>>)
                                   \o rest.failed_items,
              attempted |-> <<record.messageId>> \o rest.attempted,
              calls |-> (IF try.called THEN <<record.messageId>> ELSE <<>>) \o rest.calls]

\* SQSHandler.__call__; instrumentation.handling_sqs_error is called once for
\* each failed item
SQSHandler_call(envelope, event) ==
    LET loop == SQSHandler_loop(envelope, event.Records)
    IN  [status |-> "returned", value |-> Report(loop.failed_items),
         attempted |-> loop.attempted, calls |-> loop.calls,
         logged |-> loop.failed_items]

\* ---- the stream adapter -----------------------------------------------------
\* a variant of the loop that goes on to the next record after a failure
RECURSIVE DynamoDBStreamsHandler_loop_ContinueAfterFailure(_, _)
DynamoDBStreamsHandler_loop_ContinueAfterFailure(records, last_sequence_number) ==
    IF records = <<>>
    THEN [raised |-> FALSE, last_sequence_number |-> last_sequence_number, calls |-> <<>>]
    ELSE LET record == Head(records)
         IN  IF ~record.has_dynamodb
             THEN DynamoDBStreamsHandler_loop_ContinueAfterFailure(
                      Tail(records), last_sequence_number)
             ELSE LET rest == DynamoDBStreamsHandler_loop_ContinueAfterFailure(
                                  Tail(records), record.sequence_number)
                  IN  [raised |-> record.handler_raises \/ rest.raised,
                       last_sequence_number |-> rest.last_sequence_number,
                       calls |-> <<record.sequence_number>> \o rest.calls]

\* the for loop of DynamoDBStreamsHandler.__call__ inside its try statement:
\* raised says whether the except clause ran
RECURSIVE DynamoDBStreamsHandler_loop(_, _)
DynamoDBStreamsHandler_loop(records, last_sequence_number) ==
    IF records = <<>>
    THEN [raised |-> FALSE, last_sequence_number |-> last_sequence_number, calls |-> <<>>]
    ELSE LET record == Head(records)
         IN  IF ~record.has_dynamodb
             THEN DynamoDBStreamsHandler_loop(Tail(records), last_sequence_number)
             ELSE IF record.handler_raises
             THEN [raised |-> TRUE, last_sequence_number |-> record.sequence_number,
                   calls |-> <<record.sequence_number>>]
             ELSE LET rest == DynamoDBStreamsHandler_loop(Tail(records),
                                                          record.sequence_number)
                  IN  [rest EXCEPT !.calls = <<record.sequence_number>> \o @]

\* a variant that reports an empty list when no record fails
DynamoDBStreamsHandler_call_AlwaysReport(event) ==
    LET loop == DynamoDBStreamsHandler_loop(event.Records, None)
    IN  [status |-> "returned",
         value |-> IF loop.raised THEN Report(<<loop.last_sequence_number>>)
                   ELSE Report(<<>>),
         attempted |-> loop.calls, calls |-> loop.calls,
         logged |-> IF loop.raised THEN <<loop.last_sequence_number>> ELSE <<>>]

\* DynamoDBStreamsHandler.__call__: None when the loop ends, the report of
\* last_sequence_number when a handler raises
DynamoDBStreamsHandler_call(event) ==
    LET loop == DynamoDBStreamsHandler_loop(event.Records, None)
    IN  [status |-> "returned",
         value |-> IF loop.raised THEN Report(<<loop.last_sequence_number>>)
                   ELSE PyNone,
         attempted |-> loop.calls, calls |-> loop.calls,
         logged |-> IF loop.raised THEN <<loop.last_sequence_number>> ELSE <<>>]

\* ---- the HTTP adapter -------------------------------------------------------
FORM_URLENCODED == "application/x-www-form-urlencoded"
GENERIC_MESSAGE == "An unexpected error happened"

\* _is_json
is_json(decoded_body) == json_loads(decoded_body).ok

\* the part of ApiGatewayHandler._prepare_request that reads the body: ok is
\* false where it raises ValueError("Unsupported content type")
ApiGatewayHandler_prepare_request(event) ==
    IF ~Truthy(event.body) THEN [ok |-> TRUE, body |-> "empty"]
    ELSE IF event.content_type = FORM_URLENCODED THEN [ok |-> TRUE, body |-> "parse_qs"]
    ELSE IF is_json(event.body) THEN [ok |-> TRUE, body |-> "json_body"]
    ELSE [ok |-> FALSE, body |-> "ValueError"]

\* str.strip("'") on a text given as a sequence of tokens, "'" being a token
RECURSIVE StripLeft(_)
StripLeft(text) ==
    IF text # <<>> /\ Head(text) = "'" THEN StripLeft(Tail(text)) ELSE text

RECURSIVE StripRight(_)
StripRight(text) ==
    IF text # <<>> /\ text[Len(text)] = "'"
    THEN StripRight(SubSeq(text, 1, Len(text) - 1)) ELSE text

Strip(text) == StripRight(StripLeft(text))

\* str(exception): the argument, and for KeyError the repr of the argument
\* (in double quotes when the argument holds a single quote)
Exception_str(exception) ==
    IF exception.type # "KeyError" THEN exception.arg
    ELSE IF Contains(exception.arg, "'") THEN <<"\"">> \o exception.arg \o <<"\"">>
    ELSE <<"'">> \o exception.arg \o <<"'">>

\* allowed_errors.get(type(exception), 500)
StatusFor(allowed_errors, exception) ==
    IF exception.type \in DOMAIN allowed_errors THEN allowed_errors[exception.type]
    ELSE 500

ErrorBody(message, error_type) ==
    [kind |-> "dict", content |-> [message |-> message, error_type |-> error_type]]

\* a variant that decides on the registration of the type, not on the status
ApiGatewayHandler_handle_error_ByRegistration(allowed_errors, exception) ==
    LET status_code == StatusFor(allowed_errors, exception)
    IN  IF exception.type \notin DOMAIN allowed_errors
        THEN [status_code |-> status_code,
              body |-> ErrorBody(<<GENERIC_MESSAGE>>, exception.type),
              logged |-> <<exception>>]
        ELSE [status_code |-> status_code,
              body |-> ErrorBody(Strip(Exception_str(exception)), exception.type),
              logged |-> <<>>]

\* ApiGatewayHandler.handle_error; logged holds the calls of
\* instrumentation.handling_api_gateway_error
ApiGatewayHandler_handle_error(allowed_errors, exception) ==
    LET status_code == StatusFor(allowed_errors, exception)
    IN  IF status_code = 500
        THEN [status_code |-> status_code,
              body |-> ErrorBody(<<GENERIC_MESSAGE>>, exception.type),
              logged |-> <<exception>>]
        ELSE [status_code |-> status_code,
              body |-> ErrorBody(Strip(Exception_str(exception)), exception.type),
              logged |-> <<>>]

\* json.dumps(body, cls=self.json_encoder): the JSON text of body
json_dumps(body) == [json_of |-> body.content]

\* ApiGatewayHandler.__call__; outcome is what self.handler does with the
\* request. _prepare_request runs before the try statement; the body the
\* handler returns is a dict or a dataclass that json.dumps can encode
ApiGatewayHandler_call(allowed_errors, event, outcome) ==
    LET request == ApiGatewayHandler_prepare_request(event)
        handled ==
            IF outcome.kind = "raise"
            THEN ApiGatewayHandler_handle_error(allowed_errors, outcome.exception)
            ELSE [status_code |-> outcome.status_code, body |-> outcome.body,
                  logged |-> <<>>]
        body == IF handled.body.kind = "dataclass"
                THEN [handled.body EXCEPT !.kind = "dict"] ELSE handled.body
    IN  IF ~request.ok
        THEN [status |-> "ValueError", value |-> PyNone, attempted |-> <<>>,
              calls |-> <<>>, logged |-> <<>>]
        ELSE [status |-> "returned",
              value |-> [headers |-> [Content_Type |-> "application/json"],
                         statusCode |-> handled.status_code,
                         body |-> json_dumps(body)],
              attempted |-> <<request.body>>, calls |-> <<request.body>>,
              logged |-> handled.logged]

\* ---- the inputs of the adapters ---------------------------------------------

MessageIds == <<"m1", "m2", "m3", "m4">>
SequenceNumbers == <<"s1", "s2", "s3", "s4">>
Envelopes == {"NoEnvelope", "SNSEnvelope", "EventBridgeEnvelope"}

\* a record body: text that is not JSON, or a JSON object with the keys
\* listed, whose "Message" is or is not JSON text
SqsBodies ==
    {[is_json |-> FALSE, keys |-> {}, message_is_json |-> FALSE],
     [is_json |-> TRUE, keys |-> {}, message_is_json |-> FALSE],
     [is_json |-> TRUE, keys |-> {"Message"}, message_is_json |-> TRUE],
     [is_json |-> TRUE, keys |-> {"Message"}, message_is_json |-> FALSE],
     [is_json |-> TRUE, keys |-> {"detail"}, message_is_json |-> FALSE]}

SqsEvents ==
    {[Records |-> [i \in 1..Len(b) |->
                      [messageId |-> MessageIds[i], body |-> b[i].body,
                       handler_raises |-> b[i].handler_raises]]] :
        b \in SeqsUpTo([body : SqsBodies, handler_raises : BOOLEAN], MaxBatch)}

StreamEvents ==
    {[Records |-> [i \in 1..Len(b) |->
                      [has_dynamodb |-> b[i].has_dynamodb,
                       sequence_number |-> SequenceNumbers[i],
                       handler_raises |-> b[i].handler_raises]]] :
        b \in SeqsUpTo([has_dynamodb : BOOLEAN, handler_raises : BOOLEAN], MaxBatch)}

HttpEvents ==
    [body : {None, "", "[\"A\"]", "a=1"},
     content_type : {None, FORM_URLENCODED, "application/json", "text/plain"}]

AllowedErrors ==
    {[t \in {} |-> 500], "KeyError" :> 404, "KeyError" :> 500,
     "KeyError" :> 404 @@ "ValueError" :> 400}

Exceptions ==
    [type : {"KeyError", "ValueError"},
     arg : {<<"Item does not exist">>, <<"'", "id", "'", " is missing">>}]

NoException == [type |-> "none", arg |-> <<>>]

\* what self.handler does: it returns a status code and a body (a dict or a
\* dataclass), or it raises
HandlerOutcomes ==
    {[kind |-> "return", status_code |-> 200,
      body |-> [kind |-> k, content |-> "payload"], exception |-> NoException] :
        k \in {"dict", "dataclass"}}
    \cup {[kind |-> "raise", status_code |-> 0,
           body |-> [kind |-> "none", content |-> "none"], exception |-> x] :
             x \in Exceptions}

NoAdapterResult ==
    [done |-> FALSE, op |-> "none", config |-> None, event |-> None, outcome |-> None,
     status |-> "none", value |-> PyNone, attempted |-> <<>>, calls |-> <<>>,
     logged |-> <<>>]

AdapterResult(op, config, event, outcome, out) ==
    [done |-> TRUE, op |-> op, config |-> config, event |-> event, outcome |-> outcome,
     status |-> out.status, value |-> out.value, attempted |-> out.attempted,
     calls |-> out.calls, logged |-> out.logged]

\* The adapters keep no state between invocations: a behaviour is one
\* invocation of one adapter.
\* the Lambda runtime invokes a queue handler with one batch
CallSQSHandler ==
    \E envelope \in Envelopes, event \in SqsEvents :
        /\ ~adapterResult.done
        /\ adapterResult' = AdapterResult("sqs", envelope, event, None,
                                          SQSHandler_call(envelope, event))
        /\ UNCHANGED <<routerVars, matchVars, flagVars, ssmVars>>

\* the Lambda runtime invokes a stream handler with one batch
CallDynamoDBStreamsHandler ==
    \E event \in StreamEvents :
        /\ ~adapterResult.done
        /\ adapterResult' = AdapterResult("dynamodb", None, event, None,
                                          DynamoDBStreamsHandler_call(event))
        /\ UNCHANGED <<routerVars, matchVars, flagVars, ssmVars>>

\* the Lambda runtime invokes an HTTP handler with one request
CallApiGatewayHandler ==
    \E allowed_errors \in AllowedErrors, event \in HttpEvents,
       outcome \in HandlerOutcomes :
        /\ ~adapterResult.done
        /\ adapterResult' = AdapterResult("api", allowed_errors, event, outcome,
                                ApiGatewayHandler_call(allowed_errors, event, outcome))
        /\ UNCHANGED <<routerVars, matchVars, flagVars, ssmVars>>

AdapterIdle == adapterResult = NoAdapterResult

Init == RouterInit /\ MatchIdle /\ FlagIdle /\ SsmIdle /\ AdapterIdle

Next == AddRoute \/ Dispatch

Spec == Init /\ [][Next]_vars

InitMatch == RouterInit /\ MatchInit /\ FlagIdle /\ SsmIdle /\ AdapterIdle

NextMatch == Match

SpecMatch == InitMatch /\ [][NextMatch]_vars

InitFlag == RouterInit /\ MatchIdle /\ FlagInit /\ SsmIdle /\ AdapterIdle

NextFlag == Evaluate \/ Bool \/ Lookup

SpecFlag == InitFlag /\ [][NextFlag]_vars

NextApi == AddApiRoute \/ Dispatch

SpecApi == Init /\ [][NextApi]_vars

InitSsm == RouterInit /\ MatchIdle /\ FlagIdle /\ SsmInit /\ AdapterIdle

NextSsm == GetFlag

SpecSsm == InitSsm /\ [][NextSsm]_vars

InitSame == RouterInit /\ SameInit /\ FlagIdle /\ SsmIdle /\ AdapterIdle

NextSame == Compare

SpecSame == InitSame /\ [][NextSame]_vars

InitRemote == RouterInit /\ MatchIdle /\ FlagIdle /\ RemoteInit /\ AdapterIdle

NextRemote == EvaluateRemote \/ PutParameter

SpecRemote == InitRemote /\ [][NextRemote]_vars

NextHandlers == CallSQSHandler \/ CallDynamoDBStreamsHandler \/ CallApiGatewayHandler

SpecHandlers == Init /\ [][NextHandlers]_vars

(***************************************************************************)
(* Properties of the router                                                *)
(***************************************************************************)
\* the routes the last dispatch ran against are the routes held now: Dispatch
\* leaves routes unchanged and every add_route overwrites result
Dispatched == result.op = "dispatch"

Matching(rs, event, context) ==
    {i \in 1..Len(rs) : matches_route(rs[i], event, context)}

\* the routes held before the last add_route
HeldBefore ==
    IF result.status = "ok" THEN SubSeq(routes, 1, Len(routes) - 1) ELSE routes

\* C1: dispatch on a router that holds no route fails with NoRoutesError, for
\* every event and context, and calls no handler
C1_EmptyRouterFailsWithNoRoutes ==
    (Dispatched /\ Len(routes) = 0) =>
        (result.status = "NoRoutesError" /\ called = <<>>)

C1_Witness ==
    /\ Dispatched /\ Len(routes) = 0
    /\ result.event = ApiEvent("/a", "GET", None)
    /\ result.context = "ctx2"
    /\ result.status = "NoRoutesError"

\* C2: dispatch calls exactly one handler, once: the handler of the first route
\* in insertion order that matches; the outcome of dispatch is the outcome of
\* that call, a returned value or the exception it raised
C2_FirstMatchOnly ==
    (Dispatched /\ Matching(routes, result.event, result.context) # {}) =>
        LET m == Matching(routes, result.event, result.context)
            first == CHOOSE i \in m : \A j \in m : i <= j
        IN  /\ Len(called) = 1
            /\ called[1].handler = routes[first].handler
            /\ called[1].event = result.event
            /\ called[1].context = result.context
            /\ result.value = called[1].outcome
            /\ result.value.by = routes[first].handler
            /\ result.status = (IF called[1].outcome.kind = "return" THEN "returned" ELSE "raised")

C2_Witness ==
    /\ Dispatched /\ Len(routes) = 3
    /\ Matching(routes, result.event, result.context) = {2, 3}
    /\ result.status = "raised"
    /\ Len(called) = 1 /\ called[1].handler = routes[2].handler

\* C3: dispatch on a router that holds routes none of which matches fails with
\* RoutingError and calls no handler; RoutingError never comes from an empty
\* router, NoRoutesError never from one that holds a route
C3_NoMatchFailsWithRoutingError ==
    Dispatched =>
        /\ (Len(routes) > 0 /\ Matching(routes, result.event, result.context) = {})
               => (result.status = "RoutingError" /\ called = <<>>)
        /\ result.status = "RoutingError" => Len(routes) > 0
        /\ result.status = "NoRoutesError" => Len(routes) = 0

C3_Witness ==
    /\ Dispatched /\ Len(routes) = 2
    /\ routes[1].kind = "SQSRoute" /\ routes[2].kind = "APIGatewayV1Route"
    /\ result.event = BatchEvent(<<Record(DYNAMODB_EVENT_SOURCE, <<"t2">>)>>)
    /\ result.status = "RoutingError"

BuiltIn(r) == r.kind \in {"SQSRoute", "DynamoDBStreamsRoute", "APIGatewayV1Route"}

\* C4 as stated: no two routes held by the router are the same route, in
\* either direction of has_same_route
C4_Original ==
    \A i, j \in 1..Len(routes) :
        i # j => ~has_same_route(routes[i], routes[j])

\* C4 as amended: no held route is the same route as one registered before it,
\* by the later route's has_same_route; two held routes of the built-in kinds
\* are the same route in neither direction
C4_NoLaterRouteSameAsEarlier ==
    /\ \A i, j \in 1..Len(routes) :
           i < j => ~has_same_route(routes[j], routes[i])
    /\ \A i, j \in 1..Len(routes) :
           (i # j /\ BuiltIn(routes[i]) /\ BuiltIn(routes[j]))
               => ~has_same_route(routes[i], routes[j])

C4_Witness ==
    /\ Len(routes) = 3
    /\ result.op = "add_route" /\ result.status = "DuplicateRoutesError"
    /\ result.route.kind = "SQSRoute"
    /\ has_same_route(result.route, routes[1])

\* C5: an add_route that is rejected as a duplicate leaves the routes as they
\* were, the same routes in the same order
C5_RejectedAddLeavesRoutes ==
    [][(result'.op = "add_route" /\ result'.status = "DuplicateRoutesError")
          => routes' = routes]_vars

C5_Witness ==
    /\ result.op = "add_route" /\ result.status = "DuplicateRoutesError"
    /\ Len(routes) = 2
    /\ has_same_route(result.route, routes[2])

\* the rule for two HTTP routes, an unset method being None
SameHttpRoute(r, s) ==
    /\ r.resource = s.resource
    /\ \/ (r.method = None /\ s.method = None)
       \/ (r.method = None) # (s.method = None)
       \/ r.method = s.method

\* C6: the registration of an HTTP route is rejected exactly when a held HTTP
\* route has the same resource and (both methods unset, or one of the two
\* unset, or equal methods)
C6_HttpDuplicateRule ==
    (result.op = "add_route" /\ result.route.kind = "APIGatewayV1Route") =>
        (result.status = "DuplicateRoutesError"
            <=> \E i \in 1..Len(HeldBefore) :
                    /\ HeldBefore[i].kind = "APIGatewayV1Route"
                    /\ SameHttpRoute(result.route, HeldBefore[i]))

\* two explicit methods on one path are held, and a path-only route on that
\* path has just been rejected
C6_Witness ==
    /\ Len(routes) = 2
    /\ routes[1].resource = "/a" /\ routes[2].resource = "/a"
    /\ routes[1].method = "GET" /\ routes[2].method = "POST"
    /\ result.op = "add_route" /\ result.status = "DuplicateRoutesError"
    /\ result.route.resource = "/a" /\ result.route.method = None

(***************************************************************************)
(* Properties of matching                                                  *)
(***************************************************************************)
SourcesOf(event) == {event.Records[i].eventSource : i \in 1..Len(event.Records)}
ArnsOf(event) == {event.Records[i].eventSourceARN : i \in 1..Len(event.Records)}

\* a batch delivered by one source: every record carries that source's tag
EventFrom(event, source) ==
    /\ "Records" \in event.keys /\ "resource" \notin event.keys
    /\ SourcesOf(event) = {source}

IsApiGatewayEvent(event) ==
    "resource" \in event.keys /\ "Records" \notin event.keys

\* C7: a route matches no event of another source, whatever its own fields
C7_NoMatchAcrossSources ==
    mResult.done =>
        /\ (mRoute.kind = "SQSRoute"
              /\ (EventFrom(mEvent, DYNAMODB_EVENT_SOURCE) \/ IsApiGatewayEvent(mEvent)))
               => ~mResult.value
        /\ (mRoute.kind = "DynamoDBStreamsRoute"
              /\ (EventFrom(mEvent, SQS_EVENT_SOURCE) \/ IsApiGatewayEvent(mEvent)))
               => ~mResult.value
        /\ (mRoute.kind = "APIGatewayV1Route"
              /\ \/ EventFrom(mEvent, SQS_EVENT_SOURCE)
                 \/ EventFrom(mEvent, DYNAMODB_EVENT_SOURCE)
                 \/ ("version" \in mEvent.keys /\ mEvent.version = "2.0"))
               => ~mResult.value

\* a queue route and a stream event that carries the route's very ARN
C7_Witness ==
    /\ mResult.done /\ ~mResult.value
    /\ mRoute.kind = "SQSRoute"
    /\ EventFrom(mEvent, DYNAMODB_EVENT_SOURCE)
    /\ mRoute.arn \in ArnsOf(mEvent)

SourceTagFound(route, event) ==
    "Records" \in event.keys /\ event_source(route) \in SourcesOf(event)

\* C8 as stated: queue routes and stream routes both match an event of their
\* source when a record's ARN starts with the route's ARN, and match only
\* events in which the source tag is found by exact equality
C8_Original ==
    (mResult.done /\ mRoute.kind \in {"SQSRoute", "DynamoDBStreamsRoute"}) =>
        /\ (SourceTagFound(mRoute, mEvent)
              /\ \E a \in ArnsOf(mEvent) : StartsWith(a, mRoute.arn))
               => mResult.value
        /\ mResult.value => SourceTagFound(mRoute, mEvent)

\* C8 as amended: a stream route matches by ARN prefix, a queue route by ARN
\* equality; both find the source tag by exact equality
C8_StreamPrefixQueueExact ==
    mResult.done =>
        /\ mRoute.kind = "DynamoDBStreamsRoute" =>
               (mResult.value <=>
                    /\ SourceTagFound(mRoute, mEvent)
                    /\ \E a \in ArnsOf(mEvent) : StartsWith(a, mRoute.arn))
        /\ mRoute.kind = "SQSRoute" =>
               (mResult.value <=>
                    /\ SourceTagFound(mRoute, mEvent)
                    /\ mRoute.arn \in ArnsOf(mEvent))

\* a stream route matched on a prefix alone
C8_Witness ==
    /\ mResult.done /\ mResult.value
    /\ mRoute.kind = "DynamoDBStreamsRoute"
    /\ mRoute.arn = <<"t1">>
    /\ ArnsOf(mEvent) = {<<"t1", "stream">>}

(***************************************************************************)
(* Properties of flag evaluation                                           *)
(***************************************************************************)
\* C9: a flag whose key the provider lacks evaluates to its default, for every
\* supplied context and for none
C9_MissingKeyGivesDefault ==
    (evalResult.done /\ evalResult.flag.key \notin DOMAIN flags) =>
        (evalResult.status = "returned" /\ evalResult.value = evalResult.flag.default)

C9_Witness ==
    /\ evalResult.done
    /\ evalResult.flag.key \notin DOMAIN flags
    /\ evalResult.flag.kind = "ContextAwareFlag"
    /\ evalResult.flag.default = TRUE
    /\ evalResult.for_context = "A"
    /\ evalResult.value = TRUE

\* C10: a context-aware flag over a stored value: enabled when the stored
\* context is none; else false when no context is supplied; else whether the
\* supplied context is in the stored list
C10_ContextAwareEvaluation ==
    (/\ evalResult.done
     /\ evalResult.flag.kind = "ContextAwareFlag"
     /\ evalResult.flag.key \in DOMAIN flags) =>
        LET stored == flags[evalResult.flag.key]
            listed == {stored.context.items[i] : i \in 1..Len(stored.context.items)}
        IN  /\ evalResult.status = "returned"
            /\ stored.context.none => evalResult.value = stored.enabled
            /\ (~stored.context.none /\ evalResult.for_context = None)
                   => evalResult.value = FALSE
            /\ (~stored.context.none /\ evalResult.for_context # None)
                   => (evalResult.value <=> evalResult.for_context \in listed)
            /\ (~stored.context.none /\ listed = {}) => evalResult.value = FALSE

\* a disabled flag whose list holds the supplied context
C10_Witness ==
    /\ evalResult.done
    /\ evalResult.flag.kind = "ContextAwareFlag"
    /\ evalResult.flag.key \in DOMAIN flags
    /\ flags[evalResult.flag.key] = FlagValue(FALSE, ContextList(<<"A", "B">>))
    /\ evalResult.for_context = "B"
    /\ evalResult.value = TRUE

\* C11: a toggle flag over a stored value ignores the supplied context: the
\* result is the stored enabled value, which is also what evaluate() gives
C11_ToggleIgnoresContext ==
    (/\ evalResult.done
     /\ evalResult.op = "evaluate"
     /\ evalResult.flag.kind = "ToggleFlag"
     /\ evalResult.flag.key \in DOMAIN flags) =>
        /\ evalResult.status = "returned"
        /\ evalResult.value = flags[evalResult.flag.key].enabled
        /\ evaluate(evalResult.flag, flags, None).value
               = flags[evalResult.flag.key].enabled
        /\ \A c \in SuppliedContexts :
               evaluate(evalResult.flag, flags, c).value = evalResult.value

\* an enabled toggle whose stored list lacks the supplied context
C11_Witness ==
    /\ evalResult.done
    /\ evalResult.op = "evaluate"
    /\ evalResult.flag.kind = "ToggleFlag"
    /\ evalResult.flag.key \in DOMAIN flags
    /\ flags[evalResult.flag.key] = FlagValue(TRUE, ContextList(<<"A">>))
    /\ evalResult.for_context = "B"
    /\ evalResult.value = TRUE

LookedUpDir ==
    <<"applications", ssmResult.application_name, "flags", ssmResult.key>>

\* the parameters stored under one application's namespace
NamespaceOf(application_name) ==
    {name \in DOMAIN store : name.dir[2] = application_name}

\* C13: a provider observes only the parameters under its own application
\* name: its result is the one it gives when every other application's
\* parameters are removed from the store; a key held only under another
\* application's namespace is not found, and a returned value is the
\* provider's own enabled parameter
C13_ProviderIsolation ==
    ssmResult.done =>
        LET application_name == ssmResult.application_name
            own == [name \in NamespaceOf(application_name) |-> store[name]]
            alone == AWSParameterStoreProvider_get_flag(
                         AWSParameterStoreProvider(application_name), own,
                         ssmResult.key, ssmResult.clientFails)
        IN  /\ ssmResult.status = alone.status
            /\ ssmResult.value = alone.value
            /\ (\A name \in NamespaceOf(application_name) : name.dir # LookedUpDir)
                   => ssmResult.status = "FlagNotFound"
            /\ ssmResult.status = "returned" =>
                   /\ Name(LookedUpDir, <<"enabled">>) \in DOMAIN store
                   /\ ssmResult.value.enabled
                          = json_loads(store[Name(LookedUpDir, <<"enabled">>)]).value

\* the flag is written under app_a only and app_b's provider does not find it
C13_Witness ==
    /\ ssmResult.done
    /\ ~ssmResult.clientFails
    /\ ssmResult.application_name = "app_b"
    /\ ssmResult.key = "test_flag"
    /\ EnabledName("app_a") \in DOMAIN store
    /\ store[EnabledName("app_a")] = "true"
    /\ NamespaceOf("app_b") = {}
    /\ ssmResult.status = "FlagNotFound"

\* C14: get_flag raises FlagNotFound when the key has no parameter at all,
\* has parameters but none named enabled, or has an enabled parameter whose
\* value is JSON null or is not JSON
C14_NoUsableEnabledIsNotFound ==
    ssmResult.done =>
        LET enabledName == Name(LookedUpDir, <<"enabled">>)
            noEntries == \A name \in DOMAIN store : name.dir # LookedUpDir
            noEnabled == enabledName \notin DOMAIN store
            nullOrNotJson ==
                /\ enabledName \in DOMAIN store
                /\ store[enabledName] \in {"null", NOT_JSON}
        IN  (noEntries \/ noEnabled \/ nullOrNotJson)
                => ssmResult.status = "FlagNotFound"

\* the key holds a context parameter and no enabled parameter
C14_Witness ==
    /\ ssmResult.done
    /\ ~ssmResult.clientFails
    /\ ssmResult.application_name = "app_a"
    /\ ssmResult.key = "test_flag"
    /\ EnabledName("app_a") \notin DOMAIN store
    /\ ContextName("app_a") \in DOMAIN store
    /\ ssmResult.status = "FlagNotFound"

\* C15: get_flag raises ValueError when the enabled parameter parses to a
\* value other than null that is not a JSON boolean, or when enabled is a
\* boolean and the context parameter parses to a value other than null that
\* is not a list; a returned FlagValue has a boolean enabled
C15_NonBooleanEnabledIsRejected ==
    (ssmResult.done /\ ~ssmResult.clientFails) =>
        LET enabledName == Name(LookedUpDir, <<"enabled">>)
            contextName == Name(LookedUpDir, <<"context">>)
            enabled == json_loads(store[enabledName])
            context == json_loads(store[contextName])
        IN  /\ (/\ enabledName \in DOMAIN store
                /\ enabled.ok
                /\ enabled.value.type \notin {"null", "bool"})
                   => ssmResult.status = "ValueError"
            /\ (/\ enabledName \in DOMAIN store
                /\ enabled.ok
                /\ enabled.value.type = "bool"
                /\ contextName \in DOMAIN store
                /\ context.ok
                /\ context.value.type \notin {"null", "list"})
                   => ssmResult.status = "ValueError"
            /\ ssmResult.status = "returned"
                   => ssmResult.value.enabled.type = "bool"

(***************************************************************************)
(* Properties of the handler adapters                                      *)
(***************************************************************************)
\* whether the decoding of a queue record or its handler raises
RecordFails(envelope, record) ==
    \/ ~record.body.is_json
    \/ envelope = "SNSEnvelope" /\ "Message" \notin record.body.keys
    \/ envelope = "SNSEnvelope" /\ ~record.body.message_is_json
    \/ envelope = "EventBridgeEnvelope" /\ "detail" \notin record.body.keys
    \/ record.handler_raises

\* C16: the queue adapter attempts every record of the batch once, in batch
\* order, whatever failed before, and batchItemFailures holds, in batch order,
\* one {itemIdentifier: message id} for each record whose decoding or handler
\* raised and nothing else; it is empty when no record fails
C16_QueueAdapterReportsEachFailure ==
    (adapterResult.done /\ adapterResult.op = "sqs") =>
        LET records == adapterResult.event.Records
            Failed(record) == RecordFails(adapterResult.config, record)
            failed == SelectSeq(records, Failed)
        IN  /\ adapterResult.status = "returned"
            /\ adapterResult.attempted
                   = [i \in 1..Len(records) |-> records[i].messageId]
            /\ adapterResult.value.batchItemFailures
                   = [i \in 1..Len(failed) |-> [itemIdentifier |-> failed[i].messageId]]
            /\ adapterResult.logged = [i \in 1..Len(failed) |-> failed[i].messageId]
            /\ (\A i \in 1..Len(records) : ~Failed(records[i]))
                   => adapterResult.value.batchItemFailures = <<>>

\* the first record's handler raises and the second record is still handled
C16_Witness ==
    /\ adapterResult.done
    /\ adapterResult.op = "sqs"
    /\ adapterResult.config = "NoEnvelope"
    /\ Len(adapterResult.event.Records) = 2
    /\ adapterResult.event.Records[1].body.is_json
    /\ adapterResult.event.Records[1].handler_raises
    /\ adapterResult.calls = <<"m1", "m2">>
    /\ adapterResult.value.batchItemFailures = <<[itemIdentifier |-> "m1"]>>

\* the records of a stream batch whose handler raises when it is called
RaisingStreamRecords(records) ==
    {i \in 1..Len(records) : records[i].has_dynamodb /\ records[i].handler_raises}

\* C17 as stated: both adapters return {"batchItemFailures": [...]} on every
\* invocation, with one entry per failed unit and an empty list on success
C17_Original ==
    (adapterResult.done /\ adapterResult.op \in {"sqs", "dynamodb"}) =>
        LET records == adapterResult.event.Records
            failures == adapterResult.value.batchItemFailures
        IN  /\ adapterResult.value.kind = "dict"
            /\ Len(failures) = Len(adapterResult.logged)
            /\ (adapterResult.op = "sqs"
                  /\ \A i \in 1..Len(records) :
                         ~RecordFails(adapterResult.config, records[i]))
                   => failures = <<>>
            /\ (adapterResult.op = "dynamodb" /\ RaisingStreamRecords(records) = {})
                   => failures = <<>>

\* C17: the queue adapter returns {"batchItemFailures": [...]} on every
\* invocation, one entry per failed record and an empty list when none fails;
\* the stream adapter returns None when no handler raises, and otherwise a
\* report whose single entry is the sequence number of the first record whose
\* handler raised, where it stopped
C17_ReportShape ==
    /\ (adapterResult.done /\ adapterResult.op = "sqs") =>
           LET records == adapterResult.event.Records
               failing == {i \in 1..Len(records) :
                              RecordFails(adapterResult.config, records[i])}
           IN  /\ adapterResult.value.kind = "dict"
               /\ Len(adapterResult.value.batchItemFailures) = Cardinality(failing)
               /\ failing = {} => adapterResult.value = Report(<<>>)
    /\ (adapterResult.done /\ adapterResult.op = "dynamodb") =>
           LET records == adapterResult.event.Records
               raising == RaisingStreamRecords(records)
               first == CHOOSE i \in raising : \A j \in raising : i <= j
               HasDynamodb(record) == record.has_dynamodb
               handled == SelectSeq(SubSeq(records, 1, first), HasDynamodb)
           IN  /\ raising = {} => adapterResult.value = PyNone
               /\ raising # {} =>
                      /\ adapterResult.value
                             = Report(<<records[first].sequence_number>>)
                      /\ adapterResult.calls
                             = [i \in 1..Len(handled) |-> handled[i].sequence_number]

\* a stream batch of two records is processed without a failure
C17_Witness ==
    /\ adapterResult.done
    /\ adapterResult.op = "dynamodb"
    /\ Len(adapterResult.event.Records) = 2
    /\ adapterResult.calls = <<"s1", "s2">>
    /\ adapterResult.value = PyNone

\* C18: every HTTP event, with an unsupported content type or a raising
\* handler too, gets a response with statusCode, the header Content-Type:
\* application/json and a JSON body, and no exception leaves the adapter
C18_AlwaysWellFormedResponse ==
    (adapterResult.done /\ adapterResult.op = "api") =>
        /\ adapterResult.status = "returned"
        /\ adapterResult.value.headers = [Content_Type |-> "application/json"]
        /\ adapterResult.value.statusCode \in Nat
        /\ DOMAIN adapterResult.value.body = {"json_of"}

\* the handler of an HTTP invocation raised
HandlerRaised ==
    /\ adapterResult.done
    /\ adapterResult.op = "api"
    /\ adapterResult.calls # <<>>
    /\ adapterResult.outcome.kind = "raise"

\* C19 as stated: the message is the exception's text (str(exception), or
\* the text it was raised with) for a registered type, and the error is
\* logged exactly when the type is not registered
C19_Original ==
    HandlerRaised =>
        LET exception == adapterResult.outcome.exception
            registered == exception.type \in DOMAIN adapterResult.config
        IN  /\ adapterResult.status = "returned"
            /\ adapterResult.value.statusCode
                   = (IF registered THEN adapterResult.config[exception.type] ELSE 500)
            /\ adapterResult.value.body.json_of.error_type = exception.type
            /\ registered =>
                   adapterResult.value.body.json_of.message
                       \in {Exception_str(exception), exception.arg}
            /\ ~registered =>
                   adapterResult.value.body.json_of.message = <<GENERIC_MESSAGE>>
            /\ adapterResult.logged = (IF registered THEN <<>> ELSE <<exception>>)

\* C19: when the handler raises, the status is the table's entry for the
\* exception's type, or 500 without an entry; the body is {message,
\* error_type} with the type's name; when the status is 500, for an
\* unregistered type or one registered with 500, the message is the generic
\* one and the error is logged once; otherwise the message is str(exception)
\* without its leading and trailing single quotes and nothing is logged
C19_ErrorMapping ==
    HandlerRaised =>
        LET exception == adapterResult.outcome.exception
            registered == exception.type \in DOMAIN adapterResult.config
            status_code == IF registered THEN adapterResult.config[exception.type]
                           ELSE 500
            message == adapterResult.value.body.json_of.message
        IN  /\ adapterResult.status = "returned"
            /\ adapterResult.value.statusCode = status_code
            /\ DOMAIN adapterResult.value.body.json_of = {"message", "error_type"}
            /\ adapterResult.value.body.json_of.error_type = exception.type
            /\ status_code = 500 =>
                   /\ message = <<GENERIC_MESSAGE>>
                   /\ adapterResult.logged = <<exception>>
            /\ status_code # 500 =>
                   /\ message = Strip(Exception_str(exception))
                   /\ (message = <<>> \/ (Head(message) # "'" /\ message[Len(message)] # "'"))
                   /\ (exception.type = "KeyError" /\ ~Contains(exception.arg, "'"))
                          => message = exception.arg
                   /\ adapterResult.logged = <<>>

\* a type registered with status 500 gets the generic message and is logged
C19_Witness ==
    /\ HandlerRaised
    /\ adapterResult.outcome.exception.type = "KeyError"
    /\ adapterResult.config = ("KeyError" :> 500)
    /\ adapterResult.value.statusCode = 500
    /\ adapterResult.value.body.json_of.message = <<GENERIC_MESSAGE>>
    /\ adapterResult.logged # <<>>

PassesHttpSourceCheck(event) ==
    /\ "resource" \in event.keys
    /\ ~("version" \in event.keys /\ event.version = "2.0")

\* C21 as stated, an unset field being None: the route matches exactly when
\* its resource is unset or equal to the event's and its method is unset or
\* equal to the event's
C21_Original ==
    (mResult.done /\ mRoute.kind = "APIGatewayV1Route" /\ PassesHttpSourceCheck(mEvent)) =>
        (mResult.value <=>
            /\ (mRoute.resource = None \/ mRoute.resource = mEvent.resource)
            /\ (mRoute.method = None \/ mRoute.method = mEvent.httpMethod))

\* C21: for an event that passes the HTTP source check, an HTTP route matches
\* exactly when its resource is None, empty or equal to the event's and its
\* method is None, empty or equal to the event's; a route with neither field
\* set matches every such event
C21_HttpRouteMatching ==
    (mResult.done /\ mRoute.kind = "APIGatewayV1Route" /\ PassesHttpSourceCheck(mEvent)) =>
        /\ mResult.value <=>
               /\ (mRoute.resource \in {None, ""} \/ mRoute.resource = mEvent.resource)
               /\ (mRoute.method \in {None, ""} \/ mRoute.method = mEvent.httpMethod)
        /\ (mRoute.resource = None /\ mRoute.method = None) => mResult.value
        /\ (mRoute.resource = mEvent.resource /\ mRoute.method = None) => mResult.value

\* a route with the empty string for its method matches a GET event
C21_Witness ==
    /\ mResult.done /\ mResult.value
    /\ mRoute.kind = "APIGatewayV1Route"
    /\ mRoute.resource = "/a" /\ mRoute.method = ""
    /\ PassesHttpSourceCheck(mEvent)
    /\ mEvent.resource = "/a" /\ mEvent.httpMethod = "GET"

\* the route's ARN filter on one ARN of the event
ArnAccepted(route, arn) ==
    IF route.kind = "SQSRoute" THEN arn = route.arn ELSE StartsWith(arn, route.arn)

\* the records of a batch that carry the route's source tag, and those whose
\* ARN the route accepts
TaggedRecords(route, event) ==
    {i \in 1..Len(event.Records) : event.Records[i].eventSource = event_source(route)}

AcceptedRecords(route, event) ==
    {i \in 1..Len(event.Records) : ArnAccepted(route, event.Records[i].eventSourceARN)}

\* C29 as stated: a queue or stream route matches a batch only if one record
\* carries both the route's source tag and an ARN the route accepts
C29_Original ==
    (mResult.done /\ mRoute.kind \in {"SQSRoute", "DynamoDBStreamsRoute"}) =>
        (mResult.value =>
            TaggedRecords(mRoute, mEvent) \cap AcceptedRecords(mRoute, mEvent) # {})

\* C29: a queue or stream route matches a batch exactly when some record
\* carries the route's source tag and some record, the same or another one,
\* carries an ARN the route accepts; the batch in which one record has the tag
\* and a record of another source has the ARN is matched
C29_TagAndArnInAnyRecords ==
    (mResult.done /\ mRoute.kind \in {"SQSRoute", "DynamoDBStreamsRoute"}) =>
        /\ mResult.value <=>
               /\ "Records" \in mEvent.keys
               /\ TaggedRecords(mRoute, mEvent) # {}
               /\ AcceptedRecords(mRoute, mEvent) # {}
        /\ (/\ "Records" \in mEvent.keys
            /\ \E i \in TaggedRecords(mRoute, mEvent) :
                   \E j \in AcceptedRecords(mRoute, mEvent) :
                       /\ i # j
                       /\ mEvent.Records[j].eventSource # event_source(mRoute))
               => mResult.value

\* a batch is matched although no record has both the tag and the ARN
C29_Witness ==
    /\ mResult.done /\ mResult.value
    /\ mRoute.kind = "SQSRoute"
    /\ Len(mEvent.Records) = 2
    /\ TaggedRecords(mRoute, mEvent) = {1}
    /\ AcceptedRecords(mRoute, mEvent) = {2}

(***************************************************************************)
(* Overlap of coexisting routes                                            *)
(***************************************************************************)
\* the router holds routes of the built-in kinds only
OnlyBuiltIn == \A i \in 1..Len(routes) : BuiltIn(routes[i])

HttpOverlap(r, s) ==
    /\ r.kind = "APIGatewayV1Route" /\ s.kind = "APIGatewayV1Route"
    /\ \/ r.resource # s.resource /\ (~Truthy(r.resource) \/ ~Truthy(s.resource))
       \/ r.resource = s.resource /\ r.method # s.method
              /\ (r.method = "" \/ s.method = "")

\* two stream routes one of whose table ARNs is a proper prefix of the other's
StreamOverlap(r, s) ==
    /\ r.kind = "DynamoDBStreamsRoute" /\ s.kind = "DynamoDBStreamsRoute"
    /\ r.arn # s.arn
    /\ (StartsWith(r.arn, s.arn) \/ StartsWith(s.arn, r.arn))

C25_StreamAdapterStopsAtFirstFailure ==
    (adapterResult.done /\ adapterResult.op = "dynamodb") =>
        LET records == adapterResult.event.Records
            raising == RaisingStreamRecords(records)
            last == IF raising = {} THEN Len(records)
                    ELSE CHOOSE i \in raising : \A j \in raising : i <= j
            HasPayload(record) == record.has_dynamodb
            handed == SelectSeq(SubSeq(records, 1, last), HasPayload)
            loop == DynamoDBStreamsHandler_loop(records, None)
        IN  /\ adapterResult.calls = [i \in 1..Len(handed) |-> handed[i].sequence_number]
            /\ loop.last_sequence_number
                   = (IF handed = <<>> THEN None ELSE handed[Len(handed)].sequence_number)
            /\ raising = {} => adapterResult.logged = <<>>
            /\ raising # {} =>
                   /\ Len(adapterResult.logged) = 1
                   /\ Len(adapterResult.value.batchItemFailures) = 1
                   /\ adapterResult.value.batchItemFailures[1].itemIdentifier
                          = records[last].sequence_number
                   /\ \A i \in (last + 1)..Len(records) :
                          \A k \in 1..Len(adapterResult.calls) :
                              adapterResult.calls[k] # records[i].sequence_number

\* the first record raises, the second would raise too and is never handed on
C25_Witness ==
    /\ adapterResult.done
    /\ adapterResult.op = "dynamodb"
    /\ Len(adapterResult.event.Records) = 2
    /\ RaisingStreamRecords(adapterResult.event.Records) = {1, 2}
    /\ adapterResult.calls = <<"s1">>
    /\ adapterResult.value.batchItemFailures = <<[itemIdentifier |-> "s1"]>>

(***************************************************************************)
(* A context-aware flag whose stored value is disabled                     *)
(***************************************************************************)
\* the evaluation was of a context-aware flag whose stored enabled is false
DisabledContextAwareFlag ==
    /\ evalResult.done
    /\ evalResult.op = "evaluate"
    /\ evalResult.flag.kind = "ContextAwareFlag"
    /\ evalResult.flag.key \in DOMAIN flags
    /\ flags[evalResult.flag.key].enabled = FALSE

\* C27 as stated: a context-aware flag whose stored enabled is false
\* evaluates to false for every supplied context
C27_Original ==
    DisabledContextAwareFlag =>
        (evalResult.status = "returned" /\ evalResult.value = FALSE)

\* C27: a context-aware flag whose stored enabled is false evaluates to false
\* when the stored context is none, when no context is supplied and when the
\* supplied context is not in the stored list; for a supplied context that is
\* in the stored list it evaluates to true: enabled is not consulted once a
\* list is stored
C27_DisabledFlagFollowsContextList ==
    DisabledContextAwareFlag =>
        LET stored == flags[evalResult.flag.key]
        IN  /\ evalResult.status = "returned"
            /\ evalResult.value
                   <=> (/\ ~stored.context.none
                        /\ evalResult.for_context # None
                        /\ Contains(stored.context.items, evalResult.for_context))

\* a disabled flag with the single listed context "A", evaluated for "A"
C27_Witness ==
    /\ DisabledContextAwareFlag
    /\ flags[evalResult.flag.key] = FlagValue(FALSE, ContextList(<<"A">>))
    /\ evalResult.for_context = "A"
    /\ evalResult.value = TRUE

(***************************************************************************)
(* The same-route predicate of queue and stream routes                     *)
(***************************************************************************)
\* C22: two SQSRoutes are the same route exactly when their queue ARNs are
\* equal, two DynamoDBStreamsRoutes exactly when their table ARNs are equal;
\* routes of different kinds are never the same; the predicate of the
\* built-in kinds is reflexive and symmetric and does not read the handler
C22_SameRouteOfQueueAndStream ==
    sameResult.done =>
        /\ (mRoute.kind = "SQSRoute" /\ mOther.kind = "SQSRoute")
               => (sameResult.value <=> mRoute.arn = mOther.arn)
        /\ (mRoute.kind = "DynamoDBStreamsRoute" /\ mOther.kind = "DynamoDBStreamsRoute")
               => (sameResult.value <=> mRoute.arn = mOther.arn)
        /\ mRoute.kind # mOther.kind => ~sameResult.value
        /\ [mRoute EXCEPT !.handler = 1] = [mOther EXCEPT !.handler = 1]
               => sameResult.value
        /\ sameResult.value = sameResult.reverse
        /\ \A h \in {1, 2} :
               has_same_route([mRoute EXCEPT !.handler = h], mOther) = sameResult.value

\* two queue routes with one ARN and different handlers are the same route
C22_Witness ==
    /\ sameResult.done
    /\ mRoute = SQSRoute(1, <<"t1">>)
    /\ mOther = SQSRoute(2, <<"t1">>)
    /\ sameResult.value = TRUE
    /\ sameResult.reverse = TRUE

(***************************************************************************)
(* Flags over the parameter store                                          *)
(***************************************************************************)
\* the text the store st holds under a parameter name, Absent when none
TextAt(st, name) == IF name \in DOMAIN st THEN st[name] ELSE Absent

\* the result r of an evaluation is the one the parameters held in st give
FreshFrom(st, r) ==
    LET e == TextAt(st, EnabledName(REMOTE_APPLICATION))
        c == TextAt(st, ContextName(REMOTE_APPLICATION))
        found == r.flag.key = "test_flag" /\ ~r.clientFails
    IN  /\ (~found \/ e \in {Absent, "null", NOT_JSON})
               => (r.status = "returned" /\ r.value = r.flag.default)
        /\ (found /\ e \in {"true", "false"} /\ c \in {Absent, "null", NOT_JSON})
               => (r.status = "returned" /\ r.value = (e = "true"))
        /\ (found /\ e \in {"true", "false"} /\ c = "[\"A\"]"
                /\ r.flag.kind = "ToggleFlag")
               => (r.status = "returned" /\ r.value = (e = "true"))
        /\ (found /\ e \in {"true", "false", "0", "1"} /\ c = "[\"A\"]"
                /\ r.flag.kind = "ContextAwareFlag")
               => (r.status = "returned" /\ r.value = (r.for_context = "A"))

\* C23: every evaluation makes exactly one provider lookup, for the key of
\* the flag, and its result is the one given by the parameters the store
\* holds at that time, whatever was stored or returned before
C23_OneLookupNoMemo ==
    [][evaluations' = evaluations + 1 =>
          /\ Len(evalResult'.lookups) = 1
          /\ evalResult'.lookups[1].key = evalResult'.flag.key
          /\ FreshFrom(store, evalResult')]_vars

\* a second evaluation returned the stored true of a toggle whose default is
\* false
C23_Witness ==
    /\ evaluations = 2
    /\ evalResult.done
    /\ evalResult.flag = [kind |-> "ToggleFlag", key |-> "test_flag", default |-> FALSE]
    /\ ~evalResult.clientFails
    /\ Len(evalResult.lookups) = 1
    /\ TextAt(store, EnabledName(REMOTE_APPLICATION)) = "true"
    /\ evalResult.status = "returned"
    /\ evalResult.value = TRUE

\* C24: of the failures of the provider only FlagNotFound is caught, and the
\* evaluation then returns the default; the ValueError of a stored value of
\* the wrong type leaves evaluate as ValueError and no value is returned
C24_OnlyFlagNotFoundIsCaught ==
    evalResult.done =>
        /\ Len(evalResult.lookups) = 1
        /\ evalResult.lookups[1].status \in {"ok", "FlagNotFound", "ValueError"}
        /\ evalResult.lookups[1].status = "FlagNotFound"
               => (evalResult.status = "returned"
                       /\ evalResult.value = evalResult.flag.default)
        /\ evalResult.lookups[1].status = "ValueError"
               => evalResult.status = "ValueError"
        /\ evalResult.lookups[1].status = "ok" => evalResult.status = "returned"

\* the provider raised ValueError and so did evaluate
C24_Witness ==
    /\ evalResult.done
    /\ evalResult.op = "evaluate"
    /\ Len(evalResult.lookups) = 1
    /\ evalResult.lookups[1].status = "ValueError"
    /\ evalResult.status = "ValueError"

\* C30: when the call of the SSM client raises, get_flag raises FlagNotFound
\* and the evaluation returns the default of the flag
C30_ClientFailureGivesDefault ==
    (evalResult.done /\ evalResult.clientFails) =>
        /\ Len(evalResult.lookups) = 1
        /\ evalResult.lookups[1].status = "FlagNotFound"
        /\ evalResult.status = "returned"
        /\ evalResult.value = evalResult.flag.default

\* the client raised although the store holds a false flag, and a flag whose
\* default is true evaluated to true
C30_Witness ==
    /\ evalResult.done
    /\ evalResult.clientFails
    /\ evalResult.flag.key = "test_flag"
    /\ evalResult.flag.default = TRUE
    /\ TextAt(store, EnabledName(REMOTE_APPLICATION)) = "false"
    /\ evalResult.status = "returned"
    /\ evalResult.value = TRUE

(***************************************************************************)
(* The in-memory provider                                                  *)
(***************************************************************************)
\* C26: get_flag of the in-memory provider returns for a configured key the
\* configured value, enabled as given and context as given or none when the
\* entry has no context; for any other key it raises FlagNotFound carrying
\* the key; the provider holds after every lookup what it was built from
C26_InMemoryLookup ==
    lookupResult.done =>
        LET Configured(key) ==
                FlagValue(configured[key].enabled,
                          IF "context" \in configured[key].keys
                          THEN configured[key].context ELSE NoContext)
        IN  /\ DOMAIN flags = DOMAIN configured
            /\ \A key \in DOMAIN configured : flags[key] = Configured(key)
            /\ lookupResult.key \in DOMAIN configured
                   => (/\ lookupResult.status = "ok"
                       /\ lookupResult.value = Configured(lookupResult.key))
            /\ lookupResult.key \notin DOMAIN configured
                   => (/\ lookupResult.status = "FlagNotFound"
                       /\ lookupResult.raised_key = lookupResult.key)

\* an entry configured without a context is returned with context none
C26_Witness ==
    /\ lookupResult.done
    /\ lookupResult.key \in DOMAIN configured
    /\ configured[lookupResult.key].keys = {}
    /\ lookupResult.status = "ok"
    /\ lookupResult.value = FlagValue(TRUE, NoContext)

====
